---- MODULE Spec2Model ----
(***************************************************************************)
(* Token Provider of the Power BI service server (src/src/auth/msal.ts):   *)
(* the process-wide tokenCache slot, getAccessToken() with its two         *)
(* acquisition strategies, and clearTokenCache(), run by several           *)
(* logically concurrent invocations on one JavaScript event loop; and its   *)
(* callers: the PowerBIClient with its two axios interceptors               *)
(* (src/src/services/powerbiClient.ts), the HTTP API (src/src/server.ts)    *)
(* and the tool server (MCPServer).                                         *)
(*                                                                         *)
(* Time is Date.now() in milliseconds.  An optional value (null /          *)
(* undefined in the source) is a sequence of length 0 or 1.                *)
(***************************************************************************)
EXTENDS Integers, Sequences, FiniteSets, TLC

\* ------------------------------------------------------------------ bounds
NumCallers == 2      \* concurrent getAccessToken() invocations
MaxIdpCalls == 2     \* identity-provider calls in one behaviour

Callers == 1..NumCallers

\* The instants (ms) at which the clock is read, and the token lifetimes (ms)
\* the identity provider may grant.
Instants == {0, 1000, 2000, 3299000, 3300000, 3301000}
Lifetimes == {1000, 301000}

\* Failures of the underlying msal call.
LowLevelErrors == {"network", "invalid_client"}

\* Values of the process environment: unset, or a string.
RawModes == {<<>>, <<"">>, <<"sp">>, <<"device">>, <<"bogus">>}
RawSecrets == {<<>>, <<"">>, <<"s3cr3t">>}
RawApiKeys == {<<>>, <<"k1">>}

VARIABLES
    procEnv,      \* process.env: PBI_AUTH_MODE, CLIENT_SECRET, API_KEY as set outside
    tokenCache,   \* msal.ts:16, <<>> (null) or <<[accessToken, expiresOn]>>
    now,          \* Date.now()
    idpCalls,     \* calls made to the identity provider so far
    pc,           \* per invocation: "idle", "awaiting", "responded"
    resp,         \* per invocation: the identity provider's answer
    last,         \* the call that completed last: caller, path, outcome
    clearState,   \* "none", "cleared", "clearedThenWritten"
    inbound,      \* the HTTP request or tool call being served
    handlerRan,   \* whether its route or tool handler has been invoked
    reply,        \* the answer given to it
    req,          \* the PowerBIClient request made for it
    outcome,      \* how PowerBIClient.request() settled
    served        \* inbound operations accepted so far

\* The variables of the callers of the Token Provider.
fvars == <<inbound, handlerRan, reply, req, outcome, served>>

vars == <<procEnv, tokenCache, now, idpCalls, pc, resp, last, clearState,
          inbound, handlerRan, reply, req, outcome, served>>

\* ------------------------------------------------------------ environment
\* process.env.X || d
OrDefault(v, d) == IF v = <<>> \/ v[1] = "" THEN d ELSE v[1]

env ==
    [CLIENT_SECRET |-> OrDefault(procEnv.CLIENT_SECRET, ""),
     PBI_AUTH_MODE |-> OrDefault(procEnv.PBI_AUTH_MODE, "sp"),
     API_KEY |-> OrDefault(procEnv.API_KEY, "")]

\* ----------------------------------------------------------------- errors
AppError(name, message, statusCode, code) ==
    [name |-> name, message |-> message, statusCode |-> statusCode, code |-> code]

AuthenticationError(message) ==
    AppError("AuthenticationError", message, 401, "AUTH_ERROR")

\* An error of the msal library, as it reaches a catch block.
LibraryError(e) == AppError("Error", e, 500, "")

\* ------------------------------------------------------ outcomes of a call
NoOut == [kind |-> "none"]
Return(token) == [kind |-> "return", value |-> token]
Throw(error) == [kind |-> "throw", error |-> error]

NoResp == [kind |-> "none"]
Reject(e) == [kind |-> "reject", error |-> e]
Resolve(result) == [kind |-> "resolve", result |-> result]

\* The token the identity provider issues to invocation c.
Token(c) == "TOK" \o ToString(c)

\* AuthenticationResult | null values the provider may resolve with at time t
\* to invocation n: null, a result without access token, and results with a token
\* whose expiresOn is absent or t + lifetime.
Results(n, t) ==
    {<<>>}
    \cup {<<[accessToken |-> "", expiresOn |-> <<>>]>>}
    \cup {<<[accessToken |-> Token(n), expiresOn |-> <<>>]>>}
    \cup {<<[accessToken |-> Token(n), expiresOn |-> <<t + l>>]>> : l \in Lifetimes}

Responses(n, t) ==
    {Reject(e) : e \in LowLevelErrors} \cup {Resolve(r) : r \in Results(n, t)}

\* ------------------------------------------------------- getAccessToken()
\* The comparison of the cache check turned round.
CacheUsableInverted(cache, t) ==
    /\ cache # <<>>
    /\ cache[1].expiresOn < t + 5 * 60 * 1000

\* The cache check with a non-strict comparison.
CacheUsableNonStrict(cache, t) ==
    /\ cache # <<>>
    /\ cache[1].expiresOn >= t + 5 * 60 * 1000

\* msal.ts:23-26
CacheUsable(cache, t) ==
    /\ cache # <<>>
    /\ cache[1].expiresOn > t + 5 * 60 * 1000

\* A dispatch whose else branch runs the device-code strategy.
SelectStrategyElseDevice(mode) ==
    IF mode = "sp" THEN "sp" ELSE "device"

\* msal.ts:35-41, the branch taken for a value of env.PBI_AUTH_MODE
SelectStrategy(mode) ==
    IF mode = "sp" THEN "sp"
    ELSE IF mode = "device" THEN "device"
    ELSE "invalid"

\* The secret check left out.
SecretNeverMissing(secret) == FALSE

\* msal.ts:60
SecretMissing(secret) == secret = ""

\* A catch block that puts the cause into the message of what it throws.
CaughtErrorWithDetail(strat, e) ==
    IF strat = "sp"
    THEN AuthenticationError("Service principal authentication failed: " \o e)
    ELSE AuthenticationError("Device code authentication failed: " \o e)

\* A catch block that rethrows what it caught.
CaughtErrorRethrown(strat, e) == LibraryError(e)

\* msal.ts:80-83 and 117-120: what the catch block of a strategy throws
CaughtError(strat, e) ==
    IF strat = "sp"
    THEN AuthenticationError("Service principal authentication failed")
    ELSE AuthenticationError("Device code authentication failed")

\* A result check that tests the result only, not its access token.
HasAccessTokenLoose(result) == result # <<>>

\* msal.ts:43, !result?.accessToken is false
HasAccessToken(result) ==
    /\ result # <<>>
    /\ result[1].accessToken # ""

\* A store that writes the new token but keeps the expiry already in the
\* slot.
StoreCredentialKeepExpiry(old, result, t) ==
    <<[accessToken |-> result[1].accessToken,
       expiresOn |-> IF old # <<>>
                     THEN old[1].expiresOn
                     ELSE IF result[1].expiresOn # <<>>
                     THEN result[1].expiresOn[1]
                     ELSE t + 3600 * 1000]>>

\* A store whose default lifetime is the safety margin.
StoreCredentialShortDefault(old, result, t) ==
    <<[accessToken |-> result[1].accessToken,
       expiresOn |-> IF result[1].expiresOn # <<>>
                     THEN result[1].expiresOn[1]
                     ELSE t + 5 * 60 * 1000]>>

\* A store that keeps a credential already in the slot.
StoreCredentialKeepExisting(old, result, t) ==
    IF old # <<>>
    THEN old
    ELSE <<[accessToken |-> result[1].accessToken,
            expiresOn |-> IF result[1].expiresOn # <<>>
                          THEN result[1].expiresOn[1]
                          ELSE t + 3600 * 1000]>>

\* msal.ts:47-50
StoreCredential(old, result, t) ==
    <<[accessToken |-> result[1].accessToken,
       expiresOn |-> IF result[1].expiresOn # <<>>
                     THEN result[1].expiresOn[1]
                     ELSE t + 3600 * 1000]>>

\* A clear that leaves the slot as it is.
ClearedCacheKept(old) == old

\* msal.ts:127
ClearedCache(old) == <<>>

\* No inbound operation and no client request.
NoInbound == [kind |-> "none"]
NoReply == [kind |-> "none"]
NoRequest == [st |-> "none"]

\* The module state of msal.ts after loading, nothing in flight.
ProviderStart ==
    /\ tokenCache = <<>>
    /\ now = 0
    /\ idpCalls = 0
    /\ pc = [c \in Callers |-> "idle"]
    /\ resp = [c \in Callers |-> NoResp]
    /\ last = [caller |-> 0, path |-> "none", out |-> NoOut]
    /\ clearState = "none"

\* The servers before any request.
FrontStart ==
    /\ inbound = NoInbound
    /\ handlerRan = FALSE
    /\ reply = NoReply
    /\ req = NoRequest
    /\ outcome = NoOut
    /\ served = 0

Init ==
    /\ procEnv \in [PBI_AUTH_MODE : RawModes, CLIENT_SECRET : RawSecrets,
                    API_KEY : {<<>>}]
    /\ ProviderStart
    /\ FrontStart

\* A call of invocation c completes on the given path with outcome o.
Completed(c, path, o) == [caller |-> c, path |-> path, out |-> o]

\* A call ends before any suspension: cache hit, or an error thrown before
\* any network call.
Finish(c, path, o) ==
    /\ last' = Completed(c, path, o)
    /\ UNCHANGED <<tokenCache, idpCalls, pc, resp>>

\* A call reaches the await of the msal acquisition call of its strategy.
Suspend(c) ==
    /\ idpCalls < MaxIdpCalls
    /\ idpCalls' = idpCalls + 1
    /\ pc' = [pc EXCEPT ![c] = "awaiting"]
    /\ UNCHANGED <<tokenCache, resp, last>>

\* msal.ts:59-79: the part of acquireTokenServicePrincipal before its await
acquireTokenServicePrincipal(c) ==
    IF SecretMissing(env.CLIENT_SECRET)
    THEN Finish(c, "miss", Throw(AuthenticationError(
             "CLIENT_SECRET is required for service principal authentication")))
    ELSE Suspend(c)

\* msal.ts:89-101: the part of acquireTokenDeviceCode before its await
acquireTokenDeviceCode(c) == Suspend(c)

\* msal.ts:21-41: getAccessToken() from its entry to its first suspension.
\* A throw before the first network call settles the call within the same
\* turn of the event loop and touches no shared state, so it is one step.
getAccessToken(c) ==
    /\ pc[c] = "idle"
    /\ IF CacheUsable(tokenCache, now)
       THEN Finish(c, "hit", Return(tokenCache[1].accessToken))
       ELSE IF SelectStrategy(env.PBI_AUTH_MODE) = "sp"
            THEN acquireTokenServicePrincipal(c)
       ELSE IF SelectStrategy(env.PBI_AUTH_MODE) = "device"
            THEN acquireTokenDeviceCode(c)
       ELSE Finish(c, "miss", Throw(AuthenticationError(
                "Invalid auth mode: " \o env.PBI_AUTH_MODE)))
    /\ clearState' = "none"
    /\ UNCHANGED <<procEnv, now>>

\* The identity provider settles the msal call of invocation c.
ProviderResponds(c) ==
    /\ pc[c] = "awaiting"
    /\ \E r \in Responses(c, now) :
           resp' = [resp EXCEPT ![c] = r]
    /\ pc' = [pc EXCEPT ![c] = "responded"]
    /\ UNCHANGED <<procEnv, tokenCache, now, idpCalls, last, clearState>>

\* A continuation that calls the identity provider again after a rejected
\* attempt instead of throwing.
ResumeRetrying(c) ==
    /\ pc[c] = "responded"
    /\ resp[c].kind = "reject"
    /\ idpCalls < MaxIdpCalls
    /\ idpCalls' = idpCalls + 1
    /\ pc' = [pc EXCEPT ![c] = "awaiting"]
    /\ resp' = [resp EXCEPT ![c] = NoResp]
    /\ UNCHANGED <<procEnv, tokenCache, now, last, clearState>>

\* A continuation that empties the slot when the acquisition failed.
ResumeInvalidating(c) ==
    /\ pc[c] = "responded"
    /\ pc' = [pc EXCEPT ![c] = "idle"]
    /\ resp' = [resp EXCEPT ![c] = NoResp]
    /\ IF resp[c].kind = "reject"
       THEN /\ last' = Completed(c, "miss",
                           Throw(CaughtError(SelectStrategy(env.PBI_AUTH_MODE),
                                             resp[c].error)))
            /\ tokenCache' = <<>>
            /\ UNCHANGED clearState
       ELSE IF ~HasAccessToken(resp[c].result)
       THEN /\ last' = Completed(c, "miss",
                           Throw(AuthenticationError("Failed to acquire access token")))
            /\ tokenCache' = <<>>
            /\ UNCHANGED clearState
       ELSE /\ tokenCache' = StoreCredential(tokenCache, resp[c].result, now)
            /\ clearState' = IF clearState = "none" THEN "none" ELSE "clearedThenWritten"
            /\ last' = Completed(c, "miss", Return(resp[c].result[1].accessToken))
    /\ UNCHANGED <<procEnv, now, idpCalls>>

\* msal.ts:76-83 / 99-120 and 43-53: the continuation after the await
Resume(c) ==
    /\ pc[c] = "responded"
    /\ pc' = [pc EXCEPT ![c] = "idle"]
    /\ resp' = [resp EXCEPT ![c] = NoResp]
    /\ IF resp[c].kind = "reject"
       THEN /\ last' = Completed(c, "miss",
                           Throw(CaughtError(SelectStrategy(env.PBI_AUTH_MODE),
                                             resp[c].error)))
            /\ UNCHANGED <<tokenCache, clearState>>
       ELSE IF ~HasAccessToken(resp[c].result)
       THEN /\ last' = Completed(c, "miss",
                           Throw(AuthenticationError("Failed to acquire access token")))
            /\ UNCHANGED <<tokenCache, clearState>>
       ELSE /\ tokenCache' = StoreCredential(tokenCache, resp[c].result, now)
            /\ clearState' = IF clearState = "none" THEN "none" ELSE "clearedThenWritten"
            /\ last' = Completed(c, "miss", Return(resp[c].result[1].accessToken))
    /\ UNCHANGED <<procEnv, now, idpCalls>>

\* A clear that also abandons the acquisitions in flight.
clearTokenCacheCancelling ==
    /\ tokenCache' = <<>>
    /\ clearState' = "cleared"
    /\ pc' = [c \in Callers |-> "idle"]
    /\ resp' = [c \in Callers |-> NoResp]
    /\ UNCHANGED <<procEnv, now, idpCalls, last>>

\* msal.ts:126-129
clearTokenCache ==
    /\ tokenCache' = ClearedCache(tokenCache)
    /\ clearState' = "cleared"
    /\ UNCHANGED <<procEnv, now, idpCalls, pc, resp, last>>

\* The clock advances.
Tick ==
    /\ \E t \in Instants : t > now /\ now' = t
    /\ UNCHANGED <<procEnv, tokenCache, idpCalls, pc, resp, last, clearState>>

\* The Token Provider on its own: its callers do not move.
Next ==
    \/ (\E c \in Callers : getAccessToken(c)) /\ UNCHANGED fvars
    \/ (\E c \in Callers : ProviderResponds(c)) /\ UNCHANGED fvars
    \/ (\E c \in Callers : Resume(c)) /\ UNCHANGED fvars
    \/ clearTokenCache /\ UNCHANGED fvars
    \/ Tick /\ UNCHANGED fvars

Spec == Init /\ [][Next]_vars

\* The identity provider answers every acquisition call, and the event loop
\* runs every continuation whose awaited promise has settled.
FairSpec ==
    /\ Spec
    /\ \A c \in Callers :
        /\ WF_vars(ProviderResponds(c) /\ UNCHANGED fvars)
        /\ WF_vars(Resume(c) /\ UNCHANGED fvars)

\* ============================================================ PowerBIClient
\* powerbiClient.ts:8-9
MAX_RETRIES == 3
RETRY_DELAY == 1000

\* inbound operations served in one behaviour
MaxRequests == 1

\* The getAccessToken() invocation made by the request interceptor, and
\* the one made for another request served at the same time.
Client == 1
Other == 2

\* The variables of the Token Provider.
pvars == <<procEnv, tokenCache, now, idpCalls, pc, resp, last, clearState>>

\* Status codes and bodies the remote API may answer with.  A body is the
\* parsed JSON: its error.message is absent or a string.
Statuses == {200, 404, 429, 503}
Bodies == {[error |-> <<>>], [error |-> <<"PowerBIEntityNotFound">>]}

\* What comes back for one send: a response, or none (network failure,
\* timeout).
RemoteAnswers ==
    {<<>>} \cup {<<[status |-> st, data |-> d]>> : st \in Statuses, d \in Bodies}

\* axios' default validateStatus.
ValidateStatus(status) == status >= 200 /\ status < 300

\* The error axios rejects with for a response outside 2xx or for no
\* response.
AxiosError(response) ==
    [name |-> "AxiosError",
     message |-> IF response = <<>>
                 THEN "Network Error"
                 ELSE "Request failed with status code "
                      \o ToString(response[1].status),
     response |-> response]

\* part_003:20-25
PowerBIError(message, statusCode, details) ==
    [name |-> "PowerBIError", message |-> message, statusCode |-> statusCode,
     code |-> "POWERBI_ERROR", details |-> details]

\* axios.isAxiosError(error)
IsAxiosError(error) == error.name = "AxiosError"

\* error.response: undefined on an error that is not an axios error.
ResponseOf(error) ==
    IF "response" \in DOMAIN error THEN error.response ELSE <<>>

\* An interceptor that sends the token without the Bearer scheme.
AttachTokenBare(token) == <<token>>

\* powerbiClient.ts:26
AttachToken(token) == <<"Bearer " \o token>>

\* A retry test that forgets to look at the response.
ShouldRetryAnyError(error, retryCount) == retryCount < MAX_RETRIES

\* A retry test that allows one retry more.
ShouldRetryOnceMore(error, retryCount) ==
    LET response == ResponseOf(error) IN
    /\ response # <<>>
    /\ response[1].status = 429 \/ response[1].status >= 500
    /\ retryCount <= MAX_RETRIES

\* powerbiClient.ts:41-45
ShouldRetry(error, retryCount) ==
    LET response == ResponseOf(error) IN
    /\ response # <<>>
    /\ response[1].status = 429 \/ response[1].status >= 500
    /\ retryCount < MAX_RETRIES

\* powerbiClient.ts:47
RetryDelayFor(retryCount) == RETRY_DELAY * 2 ^ retryCount

\* A catch block that passes on what it caught.
RequestCatchRethrow(error) == error

\* powerbiClient.ts:64-72
RequestCatch(error) ==
    IF IsAxiosError(error) /\ error.response # <<>>
    THEN PowerBIError(
             IF error.response[1].data.error # <<>>
             THEN error.response[1].data.error[1]
             ELSE error.message,
             error.response[1].status,
             error.response[1].data)
    ELSE error

\* powerbiClient.ts:60-62: request() hands a fresh config to the axios
\* instance.
NewRequest(path) ==
    [st |-> "start", path |-> path, retry |-> 0, sends |-> 0,
     authorization |-> <<>>, deadline |-> 0, response |-> <<>>]

\* powerbiClient.ts:31-57 and 63-73: the response interceptor's error
\* handler, then request()'s catch block when the handler rethrows.
Fail(error) ==
    IF ShouldRetry(error, req.retry)
    THEN /\ req' = [req EXCEPT !.st = "delay",
                               !.retry = req.retry + 1,
                               !.deadline = now + RetryDelayFor(req.retry),
                               !.response = ResponseOf(error)]
         /\ outcome' = outcome
    ELSE /\ req' = [req EXCEPT !.st = "done", !.response = ResponseOf(error)]
         /\ outcome' = Throw(RequestCatch(error))

\* powerbiClient.ts:25-27: the request interceptor once getAccessToken()
\* has settled with out: the request goes out with the header, or the
\* rejection passes to the response interceptor's error handler.
AfterToken(out) ==
    IF out.kind = "return"
    THEN /\ req' = [req EXCEPT !.st = "sent",
                               !.authorization = AttachToken(out.value),
                               !.sends = req.sends + 1,
                               !.response = <<>>]
         /\ outcome' = outcome
    ELSE Fail(out.error)

\* powerbiClient.ts:24-25 (and 52 after the delay): the interceptor chain
\* starts and calls getAccessToken().
RequestInterceptor ==
    /\ req.st = "start" \/ (req.st = "delay" /\ now >= req.deadline)
    /\ getAccessToken(Client)
    /\ IF pc'[Client] = "awaiting"
       THEN req' = [req EXCEPT !.st = "awaitToken"] /\ outcome' = outcome
       ELSE AfterToken(last'.out)
    /\ UNCHANGED <<inbound, handlerRan, reply, served>>

\* powerbiClient.ts:25: getAccessToken() settles after its acquisition.
TokenArrives ==
    /\ req.st = "awaitToken"
    /\ Resume(Client)
    /\ AfterToken(last'.out)
    /\ UNCHANGED <<inbound, handlerRan, reply, served>>

\* powerbiClient.ts:62 and 31-57: the remote API answers the request that
\* was sent, or the send fails without a response.
RemoteResponds ==
    /\ req.st = "sent"
    /\ \E r \in RemoteAnswers :
        IF r # <<>> /\ ValidateStatus(r[1].status)
        THEN /\ req' = [req EXCEPT !.st = "done", !.response = r]
             /\ outcome' = Return(r[1].data)
        ELSE Fail(AxiosError(r))
    /\ UNCHANGED pvars
    /\ UNCHANGED <<inbound, handlerRan, reply, served>>

\* powerbiClient.ts:50: time passes until the timer of the delay is due.
TimerElapses ==
    /\ req.st = "delay"
    /\ now < req.deadline
    /\ now' = req.deadline
    /\ UNCHANGED <<procEnv, tokenCache, idpCalls, pc, resp, last, clearState>>
    /\ UNCHANGED fvars

\* ================================================================= HTTP API
\* Request URLs and x-api-key headers (absent, or a string).
Urls == {"/health", "/health/deep", "/docs/json", "/openapi.json",
         "/api/pbi/workspaces", "/api/pbi/nothing"}
KeyHeaders == {<<>>, <<"">>, <<"k1">>, <<"k2">>}
Methods == {"GET", "OPTIONS"}

\* server.ts:31-34: the onRequest hook of the CORS plugin, registered
\* before the API key hook, answers an OPTIONS request itself: 204 to a
\* preflight, 400 to one without the preflight headers.
CorsAnswers(method) ==
    IF method = "OPTIONS"
    THEN {[kind |-> "http", statusCode |-> 204, error |-> "", code |-> <<>>],
          [kind |-> "http", statusCode |-> 400,
           error |-> "Invalid Preflight Request", code |-> <<>>]}
    ELSE {}

\* String.prototype.startsWith
StartsWith(str, prefix) ==
    /\ Len(str) >= Len(prefix)
    /\ SubSeq(str, 1, Len(prefix)) = prefix

\* A hook that only compares the header with the configured key.
KeyRejectedUnlessEqual(url, apiKey, configured) ==
    /\ ~(StartsWith(url, "/docs") \/ StartsWith(url, "/health")
         \/ url = "/openapi.json")
    /\ (apiKey = <<>> \/ apiKey[1] # configured)

\* server.ts:100-122: whether the onRequest hook answers 401.
KeyRejected(url, apiKey, configured) ==
    /\ ~(StartsWith(url, "/docs") \/ StartsWith(url, "/health")
         \/ url = "/openapi.json")
    /\ (apiKey = <<>> \/ apiKey[1] = "" \/ apiKey[1] # configured)

\* The route a URL is dispatched to: server.ts:161, 184, 220 with
\* pbi.ts:152, the documentation routes of the swagger plugins, or none.
Route(url) ==
    CASE url = "/health" -> "health"
      [] url = "/health/deep" -> "healthDeep"
      [] url = "/api/pbi/workspaces" -> "listWorkspaces"
      [] StartsWith(url, "/docs") \/ url = "/openapi.json" -> "docs"
      [] OTHER -> "notFound"

HttpReply(statusCode, error, code) ==
    [kind |-> "http", statusCode |-> statusCode, error |-> error, code |-> code]

\* error instanceof AppError
IsAppError(error) ==
    error.name \in {"AppError", "AuthenticationError", "PowerBIError",
                    "PBIToolsError", "ValidationError"}

\* server.ts:125-158
ErrorHandler(error) ==
    IF IsAppError(error)
    THEN HttpReply(error.statusCode, error.name, <<error.code>>)
    ELSE HttpReply(IF "statusCode" \in DOMAIN error THEN error.statusCode ELSE 500,
                   "Internal Server Error", <<>>)

\* server.ts:190-216: the deep health check reports a failed remote call
\* in its body.
DeepHealth(o) ==
    [kind |-> "http", statusCode |-> 200, error |-> "", code |-> <<>>,
     status |-> IF o.kind = "return" THEN "ok" ELSE "degraded"]

\* pbi.ts:163 with server.ts:125-158: the route returns what the client
\* returned, or its error reaches the error handler.
RouteResult(o) ==
    IF o.kind = "return" THEN HttpReply(200, "", <<>>) ELSE ErrorHandler(o.error)

\* An inbound operation can be taken: nothing is being served.
Ready ==
    /\ inbound.kind = "none" \/ reply.kind # "none"
    /\ served < MaxRequests

\* server.ts:31-34 and 100-122, then the route's handler.
HttpRequest(method, url, apiKey) ==
    /\ Ready
    /\ served' = served + 1
    /\ inbound' = [kind |-> "http", method |-> method, url |-> url,
                   apiKey |-> apiKey]
    /\ outcome' = NoOut
    /\ IF CorsAnswers(method) # {}
       THEN /\ reply' \in CorsAnswers(method)
            /\ handlerRan' = FALSE
            /\ req' = NoRequest
       ELSE IF KeyRejected(url, apiKey, env.API_KEY)
       THEN /\ reply' = HttpReply(401, "Unauthorized", <<>>)
            /\ handlerRan' = FALSE
            /\ req' = NoRequest
       ELSE CASE Route(url) \in {"health", "docs"} ->
                 /\ reply' = HttpReply(200, "", <<>>)
                 /\ handlerRan' = TRUE
                 /\ req' = NoRequest
              [] Route(url) \in {"healthDeep", "listWorkspaces"} ->
                 /\ reply' = NoReply
                 /\ handlerRan' = TRUE
                 /\ req' = NewRequest("/groups")
              [] OTHER ->
                 /\ reply' = HttpReply(404, "Not Found", <<>>)
                 /\ handlerRan' = FALSE
                 /\ req' = NoRequest
    /\ UNCHANGED pvars

\* ============================================================== tool server
\* part_002:39-54: the tools' names and input schemas.  A schema lists its
\* fields with their types; a strict schema admits no other field.
ToolNames == {"listWorkspaces", "getWorkspace"}

inputSchema(name) ==
    IF name = "listWorkspaces"
    THEN [fields |-> {}, strict |-> TRUE]
    ELSE [fields |-> {[name |-> "workspaceId", type |-> "string"]}, strict |-> FALSE]

\* Arguments of a tool call: absent, or an object given as the set of its
\* fields, each with its type and its value as a template literal prints it.
ArgumentValues ==
    {<<>>,
     <<{[name |-> "workspaceId", type |-> "string", value |-> "w1"]}>>,
     <<{[name |-> "workspaceId", type |-> "number", value |-> "7"]}>>}

CalledNames == ToolNames \cup {"dropWorkspace"}

\* args || {}
ArgsOrEmpty(args) == IF args = <<>> THEN {} ELSE args[1]

\* schema.parse(input) succeeds.
SatisfiesSchema(schema, input) ==
    /\ \A f \in schema.fields :
         \E a \in input : a.name = f.name /\ a.type = f.type
    /\ schema.strict => \A a \in input : \E f \in schema.fields : a.name = f.name

\* `${input.workspaceId}`
FieldText(input, field) ==
    IF \E a \in input : a.name = field
    THEN (CHOOSE a \in input : a.name = field).value
    ELSE "undefined"

\* part_002:43-45, 51-53 with powerbiClient.ts:77-83: the remote path a
\* tool's handler requests.
ToolPath(name, input) ==
    IF name = "listWorkspaces"
    THEN "/groups"
    ELSE "/groups/" \o FieldText(input, "workspaceId")

\* powerbiClient.ts:229-236: the tool is looked up by name and its handler
\* is called with the arguments as they came.
CallTool(name, args) ==
    /\ Ready
    /\ served' = served + 1
    /\ inbound' = [kind |-> "tool", name |-> name, args |-> args]
    /\ outcome' = NoOut
    /\ IF name \notin ToolNames
       THEN /\ reply' = [kind |-> "rpcError", message |-> "Unknown tool: " \o name]
            /\ handlerRan' = FALSE
            /\ req' = NoRequest
       ELSE /\ reply' = NoReply
            /\ handlerRan' = TRUE
            /\ req' = NewRequest(ToolPath(name, ArgsOrEmpty(args)))
    /\ UNCHANGED pvars

\* powerbiClient.ts:238-264: the result as text, or isError with
\* {success: false, error: message} as text.
ToolResult(o) ==
    IF o.kind = "return"
    THEN [kind |-> "tool", isError |-> FALSE, text |-> o.value]
    ELSE [kind |-> "tool", isError |-> TRUE,
          text |-> [success |-> FALSE, error |-> o.error.message]]

\* The handler's await on the client settles and the server answers:
\* powerbiClient.ts:236-264, pbi.ts:163, server.ts:196-204.
Reply ==
    /\ req.st = "done"
    /\ reply = NoReply
    /\ reply' = IF inbound.kind = "tool" THEN ToolResult(outcome)
                ELSE IF Route(inbound.url) = "healthDeep" THEN DeepHealth(outcome)
                ELSE RouteResult(outcome)
    /\ UNCHANGED pvars
    /\ UNCHANGED <<inbound, handlerRan, req, outcome, served>>

\* ------------------------------------------------------------ the servers
\* Process environments of a server that can reach the identity provider
\* or is misconfigured, with and without an API key.
ServerInit ==
    /\ procEnv \in [PBI_AUTH_MODE : {<<"sp">>, <<"bogus">>},
                    CLIENT_SECRET : {<<>>, <<"s3cr3t">>},
                    API_KEY : RawApiKeys]
    /\ ProviderStart
    /\ FrontStart

\* One inbound operation at a time and the client request it makes; the
\* other invocation of getAccessToken() belongs to a request served
\* concurrently.
ServerNext ==
    \/ \E method \in Methods, url \in Urls, apiKey \in KeyHeaders :
            HttpRequest(method, url, apiKey)
    \/ \E name \in CalledNames, args \in ArgumentValues : CallTool(name, args)
    \/ RequestInterceptor
    \/ TokenArrives
    \/ RemoteResponds
    \/ TimerElapses
    \/ Reply
    \/ (\E c \in Callers : ProviderResponds(c)) /\ UNCHANGED fvars
    \/ getAccessToken(Other) /\ UNCHANGED fvars
    \/ Resume(Other) /\ UNCHANGED fvars

ServerSpec == ServerInit /\ [][ServerNext]_vars

\* ================================================================ claims
\* The safety margin and default lifetime as the claims state them.
FiveMinutes == 5 * 60 * 1000
OneHour == 3600 * 1000

\* Invocation c is between its identity-provider call and its continuation.
InFlight(c) == pc[c] \in {"awaiting", "responded"}

\* The step took invocation c past the cache check: it either suspended on
\* an identity-provider call or threw before making one.
TookMissPath(c) ==
    \/ pc'[c] = "awaiting"
    \/ /\ pc'[c] = "idle"
       /\ last'.caller = c
       /\ last'.path = "miss"
       /\ last'.out.kind = "throw"

\* C1: a call that finds a credential in the slot whose expiry is strictly
\* more than 5 minutes after the current time returns exactly the cached
\* token, makes no identity-provider call and leaves the slot unchanged.
C1_CacheHit ==
    [][\A c \in Callers :
        (/\ getAccessToken(c)
         /\ tokenCache # <<>>
         /\ tokenCache[1].expiresOn > now + FiveMinutes)
        => /\ last' = Completed(c, "hit", Return(tokenCache[1].accessToken))
           /\ idpCalls' = idpCalls
           /\ tokenCache' = tokenCache
           /\ pc' = pc]_vars

\* A call has just returned the cached token of another invocation's
\* acquisition; that credential is in the slot with more than 5 minutes left
\* and the one identity-provider call made is the one that acquired it.
C1_Witness ==
    \E c, d \in Callers :
        /\ c # d
        /\ last = Completed(d, "hit", Return(Token(c)))
        /\ tokenCache # <<>>
        /\ tokenCache[1].accessToken = Token(c)
        /\ tokenCache[1].expiresOn > now + FiveMinutes
        /\ idpCalls = 1

\* C2: a call that finds a credential in the slot with expiry E <= now + 5
\* minutes (E = now + 5 min exactly and E = now + 5 min - 1 s included) does
\* not return it: it starts a fresh acquisition with one identity-provider
\* call, and nothing is returned in that step.
C2_ExpiryBoundary ==
    [][\A c \in Callers :
        (/\ getAccessToken(c)
         /\ tokenCache # <<>>
         /\ tokenCache[1].expiresOn <= now + FiveMinutes)
        => /\ pc'[c] = "awaiting"
           /\ idpCalls' = idpCalls + 1
           /\ last' = last
           /\ tokenCache' = tokenCache]_vars

\* An invocation is suspended on a fresh acquisition while the slot holds
\* another invocation's credential whose expiry is exactly 5 minutes ahead.
C2_Witness ==
    \E c, d \in Callers :
        /\ c # d
        /\ pc[c] = "awaiting"
        /\ pc[d] = "idle"
        /\ tokenCache # <<>>
        /\ tokenCache[1].accessToken = Token(d)
        /\ tokenCache[1].expiresOn = now + FiveMinutes
        /\ last = Completed(d, "miss", Return(Token(d)))
        /\ idpCalls = 2

\* The provider's result carries an access token.
Succeeded(r) ==
    /\ r.kind = "resolve"
    /\ r.result # <<>>
    /\ r.result[1].accessToken # ""

\* The credential a successful result r stores when its call resumes at t.
Stored(r, t) ==
    <<[accessToken |-> r.result[1].accessToken,
       expiresOn |-> IF r.result[1].expiresOn = <<>>
                     THEN t + OneHour
                     ELSE r.result[1].expiresOn[1]]>>

\* The latest completed call was a successful acquisition yielding the
\* token that is still in the slot.
LatestAcquisitionStored ==
    /\ last.path = "miss"
    /\ last.out.kind = "return"
    /\ tokenCache # <<>>
    /\ tokenCache[1].accessToken = last.out.value

\* C3 as stated: after a successful acquisition yielding T, a call made
\* while T is valid (before its expiry) returns T with no identity-provider
\* call.
C3_AsStated ==
    [][\A c \in Callers :
        (/\ getAccessToken(c)
         /\ LatestAcquisitionStored
         /\ now < tokenCache[1].expiresOn)
        => /\ last' = Completed(c, "hit", Return(last.out.value))
           /\ idpCalls' = idpCalls]_vars

\* C3 (amended): a successful acquisition yielding T replaces whatever the
\* slot held by T and its expiry and returns T; a call made afterwards,
\* while T is still the stored credential and more than 5 minutes before
\* T's expiry, returns T and makes no identity-provider call.
C3_RefreshReplacesCache ==
    [][\A c \in Callers :
        /\ (Resume(c) /\ Succeeded(resp[c]))
           => /\ tokenCache' = Stored(resp[c], now)
              /\ last' = Completed(c, "miss", Return(resp[c].result[1].accessToken))
        /\ (/\ getAccessToken(c)
            /\ LatestAcquisitionStored
            /\ now + FiveMinutes < tokenCache[1].expiresOn)
           => /\ last' = Completed(c, "hit", Return(last.out.value))
              /\ idpCalls' = idpCalls]_vars

\* Starting from the empty slot at time 0, one invocation acquired a token
\* expiring 3600 s out and the next call, by another invocation, returned
\* that same token: one identity-provider call in all.
C3_Witness ==
    \E c, d \in Callers :
        /\ c # d
        /\ now = 0
        /\ idpCalls = 1
        /\ tokenCache = <<[accessToken |-> Token(c), expiresOn |-> OneHour]>>
        /\ last = Completed(d, "hit", Return(Token(c)))

\* C4 as stated: the first call after clearTokenCache() never returns a
\* cached token, whatever happened between the clear and the call.
C4_AsStated ==
    [][\A c \in Callers :
        (getAccessToken(c) /\ clearState \in {"cleared", "clearedThenWritten"})
        => TookMissPath(c)]_vars

\* C4 (amended): clearTokenCache() empties the slot and completes without
\* an error, and the first call after it performs a fresh acquisition
\* provided no acquisition already in flight has stored its credential
\* between the clear and that call.
C4_ExplicitInvalidation ==
    [][/\ clearTokenCache => (tokenCache' = <<>> /\ last' = last /\ pc' = pc)
       /\ \A c \in Callers :
            (getAccessToken(c) /\ clearState = "cleared")
            => /\ TookMissPath(c)
               /\ tokenCache = <<>>]_vars

\* At time 0 a token had been returned, the slot was then cleared, and the
\* call made after the clear is suspended on a fresh acquisition.
C4_Witness ==
    \E c \in Callers :
        /\ now = 0
        /\ last.out.kind = "return"
        /\ tokenCache = <<>>
        /\ clearState = "none"
        /\ pc[c] = "awaiting"
        /\ \A d \in Callers \ {c} : pc[d] = "idle"
        /\ idpCalls = 2

\* C5: a call whose acquisition fails (the strategy call rejects, or the
\* result is null or has an empty access token) throws and returns no
\* token, also when a credential is still in the slot.
C5_NeverStale ==
    [][\A c \in Callers :
        (Resume(c) /\ ~Succeeded(resp[c]))
        => /\ last'.caller = c
           /\ last'.out.kind = "throw"]_vars

\* A resumed call has thrown for a result without access token while a
\* credential within the 5 minute margin sits in the slot.
C5_Witness ==
    /\ last.out = Throw(AuthenticationError("Failed to acquire access token"))
    /\ tokenCache # <<>>
    /\ tokenCache[1].expiresOn <= now + FiveMinutes
    /\ tokenCache[1].expiresOn > now

\* The step completed a call of invocation c with a returned token.
Returned(c) ==
    /\ getAccessToken(c) \/ Resume(c)
    /\ pc'[c] = "idle"
    /\ last'.caller = c
    /\ last'.out.kind = "return"

\* C6 as stated: every returned token is a non-empty string whose expiry,
\* as stored with it in the slot, is later than the time of return.
C6_AsStated ==
    [][\A c \in Callers :
        Returned(c)
        => /\ last'.out.value # ""
           /\ tokenCache' # <<>>
           /\ tokenCache'[1].accessToken = last'.out.value
           /\ tokenCache'[1].expiresOn > now']_vars

\* C6 (amended): every returned token is a non-empty string stored in the
\* slot; on the cache-hit path its expiry is more than 5 minutes later than
\* the time of return; on the fresh-acquisition path its expiry is later
\* than the time of return when the provider's result carries no expiry or
\* one still ahead of the clock as the call resumes (the code does not
\* compare a reported expiry with the clock).
C6_ReturnedTokensValid ==
    [][\A c \in Callers :
        Returned(c)
        => /\ last'.out.value # ""
           /\ tokenCache' # <<>>
           /\ tokenCache'[1].accessToken = last'.out.value
           /\ last'.path = "hit" => tokenCache'[1].expiresOn > now' + FiveMinutes
           /\ (/\ last'.path = "miss"
               /\ \/ resp[c].result[1].expiresOn = <<>>
                  \/ resp[c].result[1].expiresOn[1] > now)
              => tokenCache'[1].expiresOn > now']_vars

\* A fresh acquisition has just returned, at a time later than 0, its own
\* token, whose stored expiry is ahead of the clock by less than 5 minutes.
C6_Witness ==
    \E c \in Callers :
        /\ last = Completed(c, "miss", Return(Token(c)))
        /\ tokenCache # <<>>
        /\ tokenCache[1].accessToken = Token(c)
        /\ tokenCache[1].expiresOn > now
        /\ tokenCache[1].expiresOn < now + FiveMinutes
        /\ now > 0

\* The strategy selector of the process environment is a string other than
\* 'sp' and 'device'.
SelectorOtherValue ==
    /\ procEnv.PBI_AUTH_MODE # <<>>
    /\ procEnv.PBI_AUTH_MODE[1] \notin {"sp", "device"}

SecretAbsent ==
    /\ procEnv.PBI_AUTH_MODE \in {<<>>, <<"">>, <<"sp">>}
    /\ procEnv.CLIENT_SECRET \in {<<>>, <<"">>}

\* C8: with the service-credential strategy selected and no or an empty
\* client secret, every call fails with AuthenticationError in the step
\* that makes it, and no identity-provider call is ever made.
C8_MissingSecret ==
    [][/\ SecretAbsent => idpCalls' = 0
       /\ \A c \in Callers :
            (getAccessToken(c) /\ SecretAbsent)
            => /\ pc'[c] = "idle"
               /\ last' = Completed(c, "miss", Throw(AuthenticationError(
                     "CLIENT_SECRET is required for service principal authentication")))
               /\ last'.out.error.name = "AuthenticationError"]_vars

\* A call has failed for the absent secret with no identity-provider call.
C8_Witness ==
    /\ procEnv.PBI_AUTH_MODE = <<"sp">>
    /\ procEnv.CLIENT_SECRET = <<>>
    /\ last.out.kind = "throw"
    /\ last.out.error.message =
           "CLIENT_SECRET is required for service principal authentication"
    /\ idpCalls = 0

\* C9: whatever a call throws is an AuthenticationError with status 401 and
\* code AUTH_ERROR.
C9_OnlyAuthenticationError ==
    last.out.kind = "throw"
    => /\ last.out.error.name = "AuthenticationError"
       /\ last.out.error.statusCode = 401
       /\ last.out.error.code = "AUTH_ERROR"

\* A call has thrown for a rejected device-code acquisition.
C9_Witness ==
    /\ last.out.kind = "throw"
    /\ last.out.error.message = "Device code authentication failed"
    /\ idpCalls > 0

\* The slot holds no credential a call may use at the current time.
SlotUnusable ==
    \/ tokenCache = <<>>
    \/ tokenCache[1].expiresOn <= now + FiveMinutes

\* C10: a call that observes a cache miss while other acquisitions are in
\* flight makes its own identity-provider call; each successful acquisition
\* returns its own token and overwrites the slot with its own credential,
\* so the slot holds the credential of the acquisition that completed last.
C10_NoDeduplication ==
    [][\A c \in Callers :
        /\ (/\ getAccessToken(c)
            /\ SlotUnusable
            /\ \E d \in Callers \ {c} : InFlight(d))
           => /\ pc'[c] = "awaiting"
              /\ idpCalls' = idpCalls + 1
        /\ (Resume(c) /\ Succeeded(resp[c]))
           => /\ last' = Completed(c, "miss", Return(Token(c)))
              /\ tokenCache' = Stored(resp[c], now)
              /\ tokenCache'[1].accessToken = Token(c)]_vars

\* Every invocation acquired on its own, one identity-provider call each,
\* while the others were in flight; all have completed and the slot holds
\* the credential of the one that completed last, over a different one.
C10_Witness ==
    \E c \in Callers :
        /\ \A d \in Callers : pc[d] = "idle"
        /\ idpCalls = NumCallers
        /\ now = 0
        /\ clearState = "none"
        /\ last = Completed(c, "miss", Return(Token(c)))
        /\ tokenCache # <<>>
        /\ tokenCache[1].accessToken = Token(c)
        /\ tokenCache[1].expiresOn > now + FiveMinutes

\* C11: clearTokenCache() leaves the acquisitions in flight as they are;
\* an acquisition that was in flight when the slot was cleared and then
\* succeeds stores its credential in the slot, and a clear that runs after
\* a write leaves the slot empty.
C11_ClearRacesWithRefresh ==
    [][/\ clearTokenCache
          => /\ tokenCache' = <<>>
             /\ pc' = pc
             /\ resp' = resp
       /\ \A c \in Callers :
            (Resume(c) /\ Succeeded(resp[c]) /\ clearState # "none")
            => /\ tokenCache' = Stored(resp[c], now)
               /\ last' = Completed(c, "miss", Return(Token(c)))]_vars

\* The slot was cleared while an acquisition was in flight, and that
\* acquisition has since stored its credential and returned its token.
C11_Witness ==
    \E c \in Callers :
        /\ clearState = "clearedThenWritten"
        /\ last = Completed(c, "miss", Return(Token(c)))
        /\ tokenCache # <<>>
        /\ tokenCache[1].accessToken = Token(c)
        /\ idpCalls = 1

\* C12: a getAccessToken() call makes at most one identity-provider call,
\* when it is made; the continuation after the provider's answer makes none
\* and settles the call, with a throw when the attempt failed.
C12_NoRetry ==
    [][\A c \in Callers :
        /\ getAccessToken(c) => idpCalls' \in {idpCalls, idpCalls + 1}
        /\ (pc[c] = "responded" /\ pc'[c] # pc[c])
           => /\ idpCalls' = idpCalls
              /\ pc'[c] = "idle"
              /\ last'.caller = c
              /\ ~Succeeded(resp[c]) => last'.out.kind = "throw"]_vars

\* One call has thrown for a rejected service-principal acquisition after a
\* single identity-provider call, and nothing is in flight.
C12_Witness ==
    /\ last.out = Throw(AuthenticationError("Service principal authentication failed"))
    /\ idpCalls = 1
    /\ \A c \in Callers : pc[c] = "idle"

\* C13: an invocation in flight leaves that state only through its own
\* continuation, which settles it with a token or an error; and, the
\* provider answering every call, every invocation in flight is eventually
\* settled.
C13_RunToCompletion ==
    /\ [][\A c \in Callers :
            (InFlight(c) /\ pc'[c] # pc[c])
            => \/ pc[c] = "awaiting" /\ pc'[c] = "responded"
               \/ /\ pc[c] = "responded"
                  /\ pc'[c] = "idle"
                  /\ last'.caller = c
                  /\ last'.out.kind \in {"return", "throw"}]_vars
    /\ \A c \in Callers : InFlight(c) ~> (pc[c] = "idle")

\* A call whose acquisition was in flight when the slot was cleared has
\* been settled with an error.
C13_Witness ==
    /\ clearState = "cleared"
    /\ last.path = "miss"
    /\ last.out = Throw(AuthenticationError("Failed to acquire access token"))
    /\ idpCalls = 1
    /\ \A c \in Callers : pc[c] = "idle"

\* C19: the error thrown for a rejected acquisition call has the fixed
\* message of its strategy, whatever the underlying failure was.
C19_StableFailureMessage ==
    [][\A c \in Callers :
        (Resume(c) /\ resp[c].kind = "reject")
        => last'.out = Throw(AuthenticationError(
               IF env.PBI_AUTH_MODE = "sp"
               THEN "Service principal authentication failed"
               ELSE "Device code authentication failed"))]_vars

\* A rejected device-code acquisition has been reported with the fixed
\* message of the strategy.
C19_Witness ==
    /\ env.PBI_AUTH_MODE = "device"
    /\ last.path = "miss"
    /\ last.out = Throw(AuthenticationError("Device code authentication failed"))
    /\ \A c \in Callers : pc[c] = "idle"

\* A request goes out to the remote API in this step.
Sends == req'.st = "sent" /\ req.st # "sent"

\* getAccessToken() settles for the request interceptor in this step.
TokenSettles ==
    /\ RequestInterceptor \/ TokenArrives
    /\ pc'[Client] = "idle"

\* C14: every send, a re-send after a retry included, happens in the step
\* in which getAccessToken() returns a token to the request interceptor and
\* carries Authorization: Bearer <that token>; when getAccessToken() throws
\* nothing is sent and the request fails.
C14_BearerOnEveryCall ==
    [][/\ Sends
          => /\ TokenSettles
             /\ last' = Completed(Client, last'.path, Return(last'.out.value))
             /\ req'.authorization = <<"Bearer " \o last'.out.value>>
             /\ req'.sends = req.sends + 1
       /\ (req.st \notin {"none", "done"} /\ req'.st \notin {"none", "done"}
           /\ ~Sends)
          => req'.sends = req.sends
       /\ (TokenSettles /\ last'.out.kind = "throw")
          => /\ req'.st = "done"
             /\ req'.sends = req.sends
             /\ outcome' = Throw(last'.out.error)]_vars

\* A re-send carries the token that another request's acquisition left in
\* the cache and getAccessToken() returned for this send.
C14_Witness ==
    /\ req.st = "sent"
    /\ req.sends = 2
    /\ req.retry = 1
    /\ last = Completed(Client, "hit", Return(Token(Other)))
    /\ req.authorization = <<"Bearer " \o Token(Other)>>

\* C15: a request() that ends with a response outside 2xx throws a
\* PowerBIError with that response's status and body, and a request()
\* that returns data ended with a 2xx response.
C15_TypedApiError ==
    /\ (req.st = "done" /\ req.response # <<>>
        /\ ~(req.response[1].status >= 200 /\ req.response[1].status < 300))
       => /\ outcome.kind = "throw"
          /\ outcome.error.name = "PowerBIError"
          /\ outcome.error.code = "POWERBI_ERROR"
          /\ outcome.error.statusCode = req.response[1].status
          /\ outcome.error.details = req.response[1].data
    /\ (req.st = "done" /\ outcome.kind = "return")
       => /\ req.response # <<>>
          /\ req.response[1].status >= 200 /\ req.response[1].status < 300
          /\ outcome.value = req.response[1].data

\* The retries are exhausted and request() has thrown the PowerBIError of
\* the last response.
C15_Witness ==
    /\ req.st = "done"
    /\ req.sends = 4
    /\ req.response = <<[status |-> 503, data |-> [error |-> <<>>]]>>
    /\ outcome = Throw(PowerBIError("Request failed with status code 503", 503,
                                    [error |-> <<>>]))

\* The remote API's answer to the request that is out, as this step
\* received it.
Answered == req.st = "sent" /\ req'.st # "sent"

\* C20: the retry counter stays within 0..3 and at most 4 sends are made;
\* the counter grows, by one, only on a response with status 429 or >= 500,
\* the re-send then waits 1000 * 2^k ms (k the counter before); any other
\* failure, and the 4th retryable failure, ends the request with an error.
C20_BoundedRetry ==
    /\ [](req.st # "none"
          => /\ req.retry \in 0..3
             /\ req.sends \in 0..4
             /\ req.sends <= req.retry + 1)
    /\ [][/\ (req.st \notin {"none", "done"} /\ req'.st \notin {"none", "start"}
              /\ req'.retry # req.retry)
             => /\ Answered
                /\ req'.response # <<>>
                /\ req'.response[1].status = 429 \/ req'.response[1].status >= 500
                /\ req'.retry = req.retry + 1
                /\ req'.st = "delay"
                /\ req'.deadline = now + 1000 * 2 ^ req.retry
          /\ (Sends /\ req.sends >= 1)
             => /\ req.retry = req.sends
                /\ now >= req.deadline
          /\ (Answered /\ req'.response = <<>>)
             => req'.st = "done" /\ outcome'.kind = "throw"
          /\ (Answered /\ req'.response # <<>>
              /\ req'.response[1].status # 429 /\ req'.response[1].status < 500)
             => req'.st = "done" /\ req'.retry = req.retry
          /\ (Answered /\ req.retry = 3 /\ req'.response # <<>>
              /\ req'.response[1].status >= 300)
             => req'.st = "done" /\ outcome'.kind = "throw"]_vars

\* Three retries were made with their delays, and the fourth retryable
\* failure has ended the request with an error.
C20_Witness ==
    /\ req.st = "done"
    /\ req.retry = 3
    /\ req.sends = 4
    /\ now >= 7000
    /\ req.response # <<>>
    /\ req.response[1].status = 429
    /\ outcome.kind = "throw"

\* The client request of the operation being served has failed with the
\* AuthenticationError getAccessToken() raised.
AuthFailed ==
    /\ req.st = "done"
    /\ outcome.kind = "throw"
    /\ outcome.error.name = "AuthenticationError"

\* The answer a front end owes to an authentication failure, as the claim
\* states it.
AuthFailureTranslated ==
    IF inbound.kind = "tool"
    THEN /\ reply.kind = "tool"
         /\ reply.isError
         /\ reply.text.success = FALSE
    ELSE /\ reply.kind = "http"
         /\ reply.statusCode = 401
         /\ reply.code = <<"AUTH_ERROR">>

\* C16 as stated: once getAccessToken() has raised AuthenticationError for
\* an operation, no acquisition is in flight for it, the HTTP API answers
\* 401 with code AUTH_ERROR and the tool server answers isError with
\* success false.
C16_AsStated ==
    AuthFailed
    => /\ pc[Client] = "idle"
       /\ reply # NoReply => AuthFailureTranslated

\* C16: as stated for the API routes and the tool server; the deep health
\* check, which also calls the remote API, answers 200 with status
\* degraded instead.  The step in which getAccessToken() throws ends the
\* client request with that error, the retry counter as it was, and the
\* client does nothing more for that request.
C16_AuthFailureTranslated ==
    /\ [](AuthFailed
          => /\ pc[Client] = "idle"
             /\ reply # NoReply
                => IF inbound.kind = "http" /\ inbound.url = "/health/deep"
                   THEN /\ reply.kind = "http"
                        /\ reply.statusCode = 200
                        /\ reply.status = "degraded"
                   ELSE AuthFailureTranslated)
    /\ [][/\ (TokenSettles /\ last'.out.kind = "throw")
             => /\ last'.out.error.name = "AuthenticationError"
                /\ req'.st = "done"
                /\ req'.retry = req.retry
                /\ req'.sends = req.sends
                /\ outcome' = Throw(last'.out.error)
          /\ AuthFailed
             => \/ req' = req /\ pc'[Client] = "idle"
                \/ req'.st \in {"none", "start"}]_vars

\* The API route for the workspaces has answered 401 with code AUTH_ERROR
\* after the token acquisition for a re-send failed.
C16_Witness ==
    /\ AuthFailed
    /\ req.retry = 1
    /\ req.sends = 1
    /\ inbound.kind = "http"
    /\ inbound.url = "/api/pbi/workspaces"
    /\ reply = HttpReply(401, "AuthenticationError", <<"AUTH_ERROR">>)

\* The HTTP request being served is one the API key hook has to reject.
Unauthorized ==
    /\ inbound.kind = "http"
    /\ ~StartsWith(inbound.url, "/docs")
    /\ ~StartsWith(inbound.url, "/health")
    /\ inbound.url # "/openapi.json"
    /\ \/ inbound.apiKey = <<>>
       \/ inbound.apiKey = <<"">>
       \/ inbound.apiKey # <<env.API_KEY>>

\* C17 as stated: every such request is answered 401 and its route handler
\* is never run.
C17_AsStated ==
    Unauthorized
    => /\ reply.kind = "http"
       /\ reply.statusCode = 401
       /\ ~handlerRan

\* C17: every such request has no route handler run and no remote call
\* made for it, and is answered 401 unless it is an OPTIONS request, which
\* the CORS hook answers before the API key hook runs.
C17_ApiKeyGating ==
    Unauthorized
    => /\ ~handlerRan
       /\ req = NoRequest
       /\ reply.kind = "http"
       /\ IF inbound.method = "OPTIONS"
          THEN reply.statusCode \in {204, 400}
          ELSE reply.statusCode = 401 /\ reply.error = "Unauthorized"

\* With the configured API key empty, a request for an API route with an
\* empty x-api-key header has been answered 401.
C17_Witness ==
    /\ env.API_KEY = ""
    /\ inbound = [kind |-> "http", method |-> "GET",
                  url |-> "/api/pbi/workspaces", apiKey |-> <<"">>]
    /\ reply = HttpReply(401, "Unauthorized", <<>>)
    /\ ~handlerRan

\* C18 as stated: a tool call whose arguments do not satisfy the tool's
\* input schema does not reach the handler and causes no remote call.
C18_AsStated ==
    (/\ inbound.kind = "tool"
     /\ inbound.name \in ToolNames
     /\ ~SatisfiesSchema(inputSchema(inbound.name), ArgsOrEmpty(inbound.args)))
    => /\ ~handlerRan
       /\ req = NoRequest

\* A call of invocation c ends with an error in this step.
Failed(c) ==
    /\ getAccessToken(c) \/ Resume(c)
    /\ pc'[c] = "idle"
    /\ last'.caller = c
    /\ last'.out.kind = "throw"

\* C21: a call that ends with an error, whether thrown before any
\* acquisition or after a failed one, leaves the slot as it was; the slot
\* changes only when a successful acquisition stores its credential or
\* when it is cleared.
C21_FailureLeavesCache ==
    [][/\ \A c \in Callers :
            /\ Failed(c) => tokenCache' = tokenCache
            /\ (Resume(c) /\ ~Succeeded(resp[c]))
               => tokenCache' = tokenCache /\ last'.out.kind = "throw"
       /\ tokenCache' # tokenCache
          => \/ clearTokenCache
             \/ \E c \in Callers : Resume(c) /\ Succeeded(resp[c])]_vars

\* The slot holds the credential of an earlier acquisition, and a later
\* call whose own acquisition failed has ended with an error.
C21_Witness ==
    /\ tokenCache # <<>>
    /\ tokenCache[1].accessToken = Token(1)
    /\ idpCalls = 2
    /\ last = Completed(2, "miss",
                        Throw(AuthenticationError("Failed to acquire access token")))

\* C22: the slot is empty initially; it is always empty or one credential
\* with a non-empty token and an expiry; and whenever it receives a
\* credential, token and expiry are those of the one successful acquisition
\* result whose call resumes in that step (its expiry, or the default
\* taken at that step when the result carries none).
C22_CacheSlotInvariant ==
    /\ tokenCache = <<>>
    /\ [](\/ tokenCache = <<>>
          \/ /\ Len(tokenCache) = 1
             /\ DOMAIN tokenCache[1] = {"accessToken", "expiresOn"}
             /\ tokenCache[1].accessToken # ""
             /\ tokenCache[1].expiresOn \in Int)
    /\ [][(tokenCache' # tokenCache /\ tokenCache' # <<>>)
          => \E c \in Callers :
               /\ Resume(c)
               /\ Succeeded(resp[c])
               /\ tokenCache'[1].accessToken = resp[c].result[1].accessToken
               /\ tokenCache'[1].expiresOn =
                    IF resp[c].result[1].expiresOn # <<>>
                    THEN resp[c].result[1].expiresOn[1]
                    ELSE now + OneHour]_vars

\* Two acquisitions have stored one after the other: the slot holds the
\* second one's token with the second one's expiry.
C22_Witness ==
    /\ idpCalls = 2
    /\ now = 1000
    /\ \A c \in Callers : pc[c] = "idle"
    /\ last = Completed(2, "miss", Return(Token(2)))
    /\ tokenCache = <<[accessToken |-> Token(2), expiresOn |-> 1000 + 301000]>>

\* 55 minutes, the default lifetime less the safety margin.
FiftyFiveMinutes == 55 * 60 * 1000

\* C23: a successful result without expiry is stored with the expiry now +
\* 3600 s and one with an expiry is stored with that expiry; a call that
\* finds a credential whose expiry is t0 + 3600 s returns it from the slot
\* when made less than 55 minutes after t0 and takes the acquisition path
\* from then on.
C23_DefaultLifetime ==
    [][\A c \in Callers :
        /\ (Resume(c) /\ Succeeded(resp[c]))
           => /\ tokenCache' # <<>>
              /\ resp[c].result[1].expiresOn = <<>>
                 => tokenCache'[1].expiresOn = now + 3600 * 1000
              /\ resp[c].result[1].expiresOn # <<>>
                 => tokenCache'[1].expiresOn = resp[c].result[1].expiresOn[1]
        /\ \A t0 \in Instants :
            (/\ tokenCache # <<>>
             /\ tokenCache[1].expiresOn = t0 + 3600 * 1000
             /\ now >= t0
             /\ getAccessToken(c))
            => IF now < t0 + FiftyFiveMinutes
               THEN /\ last' = Completed(c, "hit", Return(tokenCache[1].accessToken))
                    /\ idpCalls' = idpCalls
                    /\ tokenCache' = tokenCache
               ELSE TookMissPath(c)]_vars

\* A token stored at time 0 with the default expiry has been served from
\* the slot one second before the 55 minutes were over.
C23_Witness ==
    /\ now = 3299000
    /\ idpCalls = 1
    /\ tokenCache # <<>>
    /\ tokenCache[1].expiresOn = 3600 * 1000
    /\ last.path = "hit"
    /\ last.out = Return(tokenCache[1].accessToken)

\* The HTTP request being served does not present the configured API key.
WithoutKey ==
    /\ inbound.kind = "http"
    /\ inbound.apiKey = <<>> \/ inbound.apiKey # <<env.API_KEY>>

\* C24 as stated: for an HTTP request that does not present the configured
\* API key, whatever its URL, no token acquisition is under way and nothing
\* has been sent to the remote API.
C24_AsStated ==
    WithoutKey
    => \/ req = NoRequest
       \/ /\ req.st \notin {"awaitToken", "sent", "delay"}
          /\ req.sends = 0

====
